---- MODULE Spec2Model ----
(***************************************************************************)
(* Model of scraper.py: the breadth-first crawl loop of                    *)
(* scrape_website_cli and the helpers clean_url and is_same_domain.        *)
(*                                                                         *)
(* A URL string is a sequence of tokens.  The delimiters the parsing looks *)
(* at (":", "/", "?", "#", ";") are tokens of their own; every other token *)
(* stands for a run of characters holding no delimiter ("https",           *)
(* "example.test", "a").  urlparse, urljoin and clean_url work on these    *)
(* sequences the way urllib.parse works on the characters.                 *)
(***************************************************************************)
EXTENDS Integers, Sequences, FiniteSets, TLC

VARIABLES
    start_url,       \* --start-url
    restrict_navbar, \* --restrict-navbar / --no-restrict-navbar
    site,            \* what the server holds: normalized URL -> page
    status,          \* what each fetch answers: normalized URL -> outcome
    domain,          \* urlparse(start_url).netloc
    queue,           \* deque of URL strings
    visited,         \* set of normalized URL strings
    scraped_pages,   \* list of {"url", "html"} records
    current_url,     \* the loop variable current_url
    pc,              \* "loop", "fetch", "done"
    queue0,          \* history: the queue when the current iteration began
    fetched,         \* history: the URLs handed to requests.get, in order
    skipped,         \* history: the set of URLs discarded by the visited test
    admitted,        \* history: the URLs appended to the queue, in order
    output,          \* the writes made to the output file, in order
    nIn,             \* clean_url harness: an input string
    nAlt,            \* clean_url harness: the input with another query/fragment
    nOut,            \* clean_url harness: the latest result for nIn
    nAltOut,         \* clean_url harness: the result for nAlt
    nPrev,           \* clean_url harness: the result before the latest one
    nStep,           \* clean_url harness: how often clean_url was applied
    gUrl,            \* is_same_domain harness: the url argument
    gHost,           \* is_same_domain harness: the host[:port] gUrl was built of
    gDomain,         \* is_same_domain harness: the domain argument
    gSame,           \* is_same_domain harness: the value returned
    gStep            \* is_same_domain harness: 1 once the function was applied

crawlVars == <<start_url, restrict_navbar, site, status, domain, queue,
               visited, scraped_pages, current_url, pc, queue0, fetched,
               skipped, admitted, output>>
urlVars == <<nIn, nAlt, nOut, nAltOut, nPrev, nStep>>
guardVars == <<gUrl, gHost, gDomain, gSame, gStep>>
vars == <<start_url, restrict_navbar, site, status, domain, queue,
          visited, scraped_pages, current_url, pc, queue0, fetched,
          skipped, admitted, output, nIn, nAlt, nOut, nAltOut, nPrev, nStep,
          gUrl, gHost, gDomain, gSame, gStep>>

----------------------------------------------------------------------------
(* Strings *)

\* tokens that hold only characters of urllib's scheme_chars
scheme_chars ==
    {"https", "HTTPS", "mailto", "example.test", "other.test",
     "www.example.test", "EXAMPLE.TEST", "a", "b", "c", "x", "q", "f", "1"}

\* tokens whose first character is an ASCII letter
AlphaFirst == scheme_chars \ {"1"}

\* str.lower() on one token
LowerTok(t) ==
    IF t = "HTTPS" THEN "https"
    ELSE IF t = "EXAMPLE.TEST" THEN "example.test"
    ELSE t

\* str.lower()
Lower(s) == [k \in 1..Len(s) |-> LowerTok(s[k])]

\* str.find(c, from): the first index >= from holding a token of cs, else 0
Find(s, cs, from) ==
    IF \E k \in from..Len(s) : s[k] \in cs
    THEN CHOOSE k \in from..Len(s) :
            s[k] \in cs /\ \A j \in from..(k - 1) : s[j] \notin cs
    ELSE 0

\* str.rfind(c): the last index holding c, else 0
RFind(s, c) ==
    IF \E k \in 1..Len(s) : s[k] = c
    THEN CHOOSE k \in 1..Len(s) :
            s[k] = c /\ \A j \in (k + 1)..Len(s) : s[j] # c
    ELSE 0

\* s[i:] for a 1-based i
From(s, i) == SubSeq(s, i, Len(s))

\* s[:i-1] for a 1-based i
Upto(s, i) == SubSeq(s, 1, i - 1)

\* a local variable: x is computed once and F applied to its value
With(x, F(_)) == CHOOSE y \in {F(v) : v \in {x}} : TRUE

----------------------------------------------------------------------------
(* urllib.parse *)

uses_relative == {<<>>, <<"https">>}
uses_netloc == {<<>>, <<"https">>}
uses_params == {<<>>, <<"https">>}

\* url[:2] == "//"
StartsWithSlashes(url) == Len(url) >= 2 /\ url[1] = "/" /\ url[2] = "/"

\* the scheme test of urlsplit: <<scheme, rest of url>>
SplitScheme(url, scheme) ==
    With(Find(url, {":"}, 1), LAMBDA i :
        IF /\ i > 1
           /\ url[1] \in AlphaFirst
           /\ \A k \in 1..(i - 1) : url[k] \in scheme_chars
        THEN <<Lower(Upto(url, i)), From(url, i + 1)>>
        ELSE <<scheme, url>>)

\* _splitnetloc(url, 2) behind a leading "//": <<netloc, rest of url>>
SplitNetloc(url) ==
    IF StartsWithSlashes(url)
    THEN With(Find(url, {"/", "?", "#"}, 3), LAMBDA d :
            IF d = 0 THEN <<From(url, 3), <<>>>>
            ELSE <<SubSeq(url, 3, d - 1), From(url, d)>>)
    ELSE <<<<>>, url>>

\* url.split(c, 1) if c is in url: <<before, after>>
SplitOnce(url, c) ==
    With(Find(url, {c}, 1), LAMBDA i :
        IF i > 0 THEN <<Upto(url, i), From(url, i + 1)>> ELSE <<url, <<>>>>)

\* urlsplit(url, scheme): scheme, netloc, path, query, fragment
urlsplit(url, scheme) ==
    With(SplitScheme(url, scheme), LAMBDA s :
    With(SplitNetloc(s[2]), LAMBDA n :
    With(SplitOnce(n[2], "#"), LAMBDA f :
    With(SplitOnce(f[1], "?"), LAMBDA q :
        [scheme |-> s[1], netloc |-> n[1], path |-> q[1],
         query |-> q[2], fragment |-> f[2]]))))

\* _splitparams(url): the index of the ";" that starts the params, else 0
splitparams(url) ==
    IF Find(url, {"/"}, 1) > 0
    THEN Find(url, {";"}, RFind(url, "/"))
    ELSE Find(url, {";"}, 1)

\* urlparse(url, scheme): urlsplit, then the params cut off the path
urlparse(url, scheme) ==
    With(urlsplit(url, scheme), LAMBDA r :
    With(IF r.scheme \in uses_params THEN splitparams(r.path) ELSE 0,
         LAMBDA i :
        [scheme |-> r.scheme, netloc |-> r.netloc,
         path |-> IF i > 0 THEN Upto(r.path, i) ELSE r.path,
         params |-> IF i > 0 THEN From(r.path, i + 1) ELSE <<>>,
         query |-> r.query, fragment |-> r.fragment]))

\* urlunsplit: the "//" netloc part in front of the path
WithNetloc(p, url) ==
    IF \/ p.netloc # <<>>
       \/ /\ p.scheme # <<>>
          /\ p.scheme \in uses_netloc
          /\ ~StartsWithSlashes(url)
    THEN <<"/", "/">> \o p.netloc
         \o (IF url # <<>> /\ url[1] # "/" THEN <<"/">> ELSE <<>>) \o url
    ELSE url

\* urlunparse(components)
urlunparse(p) ==
    (IF p.scheme # <<>> THEN p.scheme \o <<":">> ELSE <<>>)
    \o WithNetloc(p, IF p.params # <<>>
                     THEN p.path \o <<";">> \o p.params ELSE p.path)
    \o (IF p.query # <<>> THEN <<"?">> \o p.query ELSE <<>>)
    \o (IF p.fragment # <<>> THEN <<"#">> \o p.fragment ELSE <<>>)

\* str.split("/"): the segments between the slashes
RECURSIVE Split(_)
Split(s) ==
    With(Find(s, {"/"}, 1), LAMBDA i :
        IF i = 0 THEN <<s>> ELSE <<Upto(s, i)>> \o Split(From(s, i + 1)))

\* "/".join(segments)
RECURSIVE Join(_)
Join(segs) ==
    IF segs = <<>> THEN <<>>
    ELSE IF Len(segs) = 1 THEN segs[1]
    ELSE segs[1] \o <<"/">> \o Join(Tail(segs))

\* segments[1:-1] = filter(None, segments[1:-1])
FilterInner(segs) ==
    IF Len(segs) <= 2 THEN segs
    ELSE <<segs[1]>>
         \o SelectSeq(SubSeq(segs, 2, Len(segs) - 1), LAMBDA g : g # <<>>)
         \o <<segs[Len(segs)]>>

\* base_parts of urljoin: the segments of the base path without the last one
BaseParts(bpath) ==
    With(Split(bpath), LAMBDA parts :
        IF parts[Len(parts)] # <<>> THEN Upto(parts, Len(parts)) ELSE parts)

\* the path urljoin builds from the base path and the reference path;
\* no token is "." or "..", so every segment is kept
JoinPath(bpath, path) ==
    With(Join(IF path # <<>> /\ path[1] = "/" THEN Split(path)
              ELSE FilterInner(BaseParts(bpath) \o Split(path))),
         LAMBDA joined : IF joined = <<>> THEN <<"/">> ELSE joined)

\* urljoin(base, url) once both are parsed
JoinParsed(b, r, url) ==
    IF r.scheme # b.scheme \/ r.scheme \notin uses_relative THEN url
    ELSE IF r.scheme \in uses_netloc /\ r.netloc # <<>> THEN urlunparse(r)
    ELSE IF r.path = <<>> /\ r.params = <<>>
         THEN urlunparse([scheme |-> r.scheme,
                          netloc |-> IF r.scheme \in uses_netloc
                                     THEN b.netloc ELSE r.netloc,
                          path |-> b.path, params |-> b.params,
                          query |-> IF r.query = <<>> THEN b.query
                                    ELSE r.query,
                          fragment |-> r.fragment])
    ELSE urlunparse([scheme |-> r.scheme,
                     netloc |-> IF r.scheme \in uses_netloc
                                THEN b.netloc ELSE r.netloc,
                     path |-> JoinPath(b.path, r.path),
                     params |-> r.params, query |-> r.query,
                     fragment |-> r.fragment])

\* urljoin(base, url)
urljoin(base, url) ==
    IF base = <<>> THEN url
    ELSE IF url = <<>> THEN base
    ELSE With(urlparse(base, <<>>), LAMBDA b :
         With(urlparse(url, b.scheme), LAMBDA r : JoinParsed(b, r, url)))

----------------------------------------------------------------------------
(* scraper.py helpers *)

\* a guard that accepts every URL with a host
is_same_domain_anyhost(url, dom) == urlparse(url, <<>>).netloc # <<>>

\* is_same_domain(url, domain)
is_same_domain(url, dom) == urlparse(url, <<>>).netloc = dom

\* a rebuild that strips a trailing slash off the path
clean_url_stripslash(url) ==
    With(urlparse(url, <<>>), LAMBDA parsed :
        parsed.scheme \o <<":", "/", "/">> \o parsed.netloc
        \o (IF parsed.path # <<>> /\ parsed.path[Len(parsed.path)] = "/"
            THEN Upto(parsed.path, Len(parsed.path)) ELSE parsed.path))

\* a rebuild that keeps the query string
clean_url_keepquery(url) ==
    With(urlparse(url, <<>>), LAMBDA parsed :
        parsed.scheme \o <<":", "/", "/">> \o parsed.netloc \o parsed.path
        \o (IF parsed.query # <<>> THEN <<"?">> \o parsed.query ELSE <<>>))

\* a rebuild that puts a "/" between host and path
clean_url_addslash(url) ==
    With(urlparse(url, <<>>), LAMBDA parsed :
        parsed.scheme \o <<":", "/", "/">> \o parsed.netloc \o <<"/">>
        \o parsed.path)

\* clean_url(url)
clean_url(url) ==
    With(urlparse(url, <<>>), LAMBDA parsed :
        parsed.scheme \o <<":", "/", "/">> \o parsed.netloc \o parsed.path)


----------------------------------------------------------------------------
(* The server: pages and fetch outcomes *)

\* an <a href=...> tag; innav: it lies inside the first div#navigationbar
Anchor(h, n) == [href |-> h, innav |-> n]

\* a document: whether it has a div#navigationbar, and its <a href> tags in
\* document order
Page(n, as) == [nav |-> n, anchors |-> as]

Origin == <<"https", ":", "/", "/", "example.test">>
Root == Origin \o <<"/">>
PageA == Origin \o <<"/", "a">>
PageB == Origin \o <<"/", "b">>
PageC == Origin \o <<"/", "c">>
PageASlash == Origin \o <<"/", "a", "/">>
Offsite == <<"https", ":", "/", "/", "other.test", "/", "x">>

\* the site of the end-to-end scenario
Site1 ==
    (Root :> Page(TRUE, <<Anchor(<<"/", "a">>, TRUE),
                          Anchor(<<"/", "b">>, TRUE)>>))
    @@ (PageA :> Page(TRUE, <<Anchor(<<"/">>, TRUE),
                              Anchor(Offsite, TRUE)>>))
    @@ (PageB :> Page(FALSE, <<>>))

\* links in and out of the navigation region, query and fragment variants,
\* a relative link, a self-link, a page without navigation region, a cycle
Site2 ==
    (Root :> Page(TRUE, <<Anchor(<<"/", "a", "?", "q">>, TRUE),
                          Anchor(<<"b">>, FALSE),
                          Anchor(<<"/", "a", "#", "f">>, TRUE),
                          Anchor(<<"/">>, TRUE)>>))
    @@ (PageA :> Page(FALSE, <<Anchor(<<"/", "c">>, FALSE),
                               Anchor(Offsite, FALSE)>>))
    @@ (PageB :> Page(TRUE, <<Anchor(<<"/", "c">>, TRUE),
                              Anchor(<<"/", "a">>, FALSE),
                              Anchor(<<"/", "/", "www.example.test", "/", "a">>,
                                     TRUE)>>))
    @@ (PageC :> Page(TRUE, <<Anchor(<<"/">>, FALSE),
                              Anchor(<<"mailto", ":", "x">>, TRUE)>>))

\* two levels below the seed, and a path with and without trailing slash
Site3 ==
    (Root :> Page(TRUE, <<Anchor(<<"/", "a">>, TRUE),
                          Anchor(<<"/", "b">>, TRUE)>>))
    @@ (PageA :> Page(TRUE, <<Anchor(<<"/", "c">>, TRUE),
                              Anchor(<<"/", "a", "/">>, TRUE)>>))
    @@ (PageB :> Page(TRUE, <<Anchor(<<"/", "c">>, TRUE)>>))
    @@ (PageC :> Page(FALSE, <<Anchor(<<"/", "a">>, FALSE)>>))
    @@ (PageASlash :> Page(TRUE, <<Anchor(<<"c">>, TRUE)>>))

\* the root with and without its "/", a path with and without trailing
\* slash, and links to the host with userinfo, another scheme, a subdomain,
\* upper case and a port
Site4 ==
    (Root :> Page(TRUE, <<Anchor(Origin, TRUE),
                          Anchor(<<"/", "a">>, TRUE),
                          Anchor(<<"https", ":", "/", "/", "x", "@",
                                   "example.test", "/", "a">>, TRUE),
                          Anchor(<<"a", ":", "/", "/", "example.test", "/",
                                   "a">>, FALSE)>>))
    @@ (Origin :> Page(TRUE, <<Anchor(<<"a", "/">>, TRUE)>>))
    @@ (PageA :> Page(FALSE, <<Anchor(<<"/", "/", "www.example.test", "/",
                                        "a">>, FALSE),
                               Anchor(<<"/", "a", "/">>, FALSE)>>))
    @@ (PageASlash :> Page(TRUE, <<Anchor(<<"/">>, TRUE),
                                   Anchor(<<"https", ":", "/", "/",
                                            "EXAMPLE.TEST", "/", "a">>, TRUE),
                                   Anchor(<<"https", ":", "/", "/",
                                            "example.test", ":", "1", "/",
                                            "a">>, TRUE)>>))

Sites == {Site1, Site2, Site3, Site4}

\* values of --start-url: normalized, with query and fragment, with an
\* upper-case scheme, without "//", and without scheme
Seeds ==
    {Root,
     Root \o <<"?", "q", "#", "f">>,
     <<"HTTPS", ":", "/", "/", "example.test", "/", "a">>,
     <<"https", ":", "example.test", "/">>,
     <<"example.test", "/">>}

\* what requests.get ends in: an exception, or a response with a status
OK200 == [raised |-> FALSE, status_code |-> 200]
NotFound == [raised |-> FALSE, status_code |-> 404]
Raised == [raised |-> TRUE, status_code |-> 0]
Outcomes == {OK200, NotFound, Raised}

\* requests sends only URLs with an http(s) scheme and a host; the others
\* raise MissingSchema, InvalidSchema or InvalidURL
Fetchable(url) ==
    With(urlparse(url, <<>>), LAMBDA parsed :
        parsed.scheme = <<"https">> /\ parsed.netloc # <<>>)

\* requests.get(current_url, timeout=10); a URL the site does not hold
\* answers 404
Response(url) ==
    IF ~Fetchable(url) THEN Raised
    ELSE IF url \in DOMAIN status THEN status[url]
    ELSE NotFound

----------------------------------------------------------------------------
(* scrape_website_cli *)

\* a loop that stops with one URL left
LoopCond_short(q) == Len(q) > 1

\* while queue:
LoopCond(q) == q # <<>>

\* reading the front of the deque without removing it
PopLeft_peek(q) == q

\* queue.popleft(): what is left of the queue
PopLeft(q) == Tail(q)

\* an append at the front of the deque
Push_left(q, url) == <<url>> \o q

\* an assignment of a new queue in place of the append
Push_replace(q, url) == <<url>>

\* queue.append(url)
Push(q, url) == Append(q, url)

\* a visited test that never fires
AlreadyVisited_never(url, vis) == FALSE

\* if current_url in visited: continue
AlreadyVisited(url, vis) == url \in vis

\* a status test that only rejects server errors
Succeeded_below500(code) == code < 500

\* if response.status_code != 200: continue
Succeeded(code) == code = 200

\* a whole-document search that only looks into the navigation region
find_all_a_navonly(page) ==
    LET inside == SelectSeq(page.anchors, LAMBDA t : t.innav)
    IN  [k \in 1..Len(inside) |-> inside[k].href]

\* a document search that misses the links of the navigation region
find_all_a_outside(page) ==
    LET outside == SelectSeq(page.anchors, LAMBDA t : ~t.innav)
    IN  [k \in 1..Len(outside) |-> outside[k].href]

\* soup.find_all("a", href=True)
find_all_a(page) == [k \in 1..Len(page.anchors) |-> page.anchors[k].href]

\* nav_div.find_all("a", href=True)
nav_find_all_a(page) ==
    LET inside == SelectSeq(page.anchors, LAMBDA t : t.innav)
    IN  [k \in 1..Len(inside) |-> inside[k].href]

\* link_tags falling back to the whole document when the region is missing
LinkTags_fallback(page, restrict) ==
    IF restrict /\ page.nav THEN nav_find_all_a(page) ELSE find_all_a(page)

\* the hrefs of link_tags
LinkTags(page, restrict) ==
    IF restrict
    THEN IF page.nav THEN nav_find_all_a(page) ELSE <<>>
    ELSE find_all_a(page)

\* an admission test that forgets the visited set
Admit_guardonly(abs_url, dom, vis) == is_same_domain(abs_url, dom)

\* an admission test against the recorded pages instead of the visited set
Admit_unrecorded(abs_url, dom, vis) ==
    /\ is_same_domain(abs_url, dom)
    /\ abs_url \notin {scraped_pages[k].url : k \in 1..Len(scraped_pages)}

\* if is_same_domain(abs_url, domain) and abs_url not in visited
Admit(abs_url, dom, vis) == is_same_domain(abs_url, dom) /\ abs_url \notin vis

\* for link in link_tags: the URLs the loop appends, in order
RECURSIVE Admitted(_, _, _, _)
Admitted(links, cur, dom, vis) ==
    IF links = <<>> THEN <<>>
    ELSE With(urljoin(cur, Head(links)), LAMBDA joined :
         With(clean_url(joined), LAMBDA abs_url :
            (IF Admit(abs_url, dom, vis) THEN <<abs_url>> ELSE <<>>)
            \o Admitted(Tail(links), cur, dom, vis)))

\* the queue after the appends of the for loop
RECURSIVE PushAll(_, _)
PushAll(q, urls) ==
    IF urls = <<>> THEN q ELSE PushAll(Push(q, Head(urls)), Tail(urls))

\* json.dump(scraped_pages, f, ...)
JsonDump(pages) == pages

\* a dequeue that forgets to mark the URL
VisitedAdd_none(vis, url) == vis

\* visited.add(current_url)
VisitedAdd(vis, url) == vis \cup {url}

\* lines 70-123 as a function: the records of the crawl that starts with
\* queue q, visited set vis and records pages
RECURSIVE CrawlRun(_, _, _, _)
CrawlRun(q, vis, pages, restrict) ==
    IF ~LoopCond(q) THEN pages
    ELSE With(clean_url(Head(q)), LAMBDA cur :
         IF AlreadyVisited(cur, vis)
         THEN CrawlRun(PopLeft(q), vis, pages, restrict)
         ELSE IF Response(cur).raised
                 \/ ~Succeeded(Response(cur).status_code)
         THEN CrawlRun(PopLeft(q), VisitedAdd(vis, cur), pages, restrict)
         ELSE CrawlRun(
                 PushAll(PopLeft(q),
                         Admitted(LinkTags(site[cur], restrict), cur, domain,
                                  VisitedAdd(vis, cur))),
                 VisitedAdd(vis, cur),
                 Append(pages, [url |-> cur, html |-> site[cur]]),
                 restrict))

\* scrape_website_cli(start_url, ..., restrict): the records written
Scrape(restrict) == CrawlRun(<<start_url>>, {}, <<>>, restrict)

StatusMaps(s) == [DOMAIN s -> Outcomes]

Init ==
    /\ start_url \in Seeds
    /\ restrict_navbar \in BOOLEAN
    /\ site \in Sites
    /\ status \in StatusMaps(site)
    /\ domain = urlparse(start_url, <<>>).netloc
    /\ queue = <<start_url>>
    /\ visited = {}
    /\ scraped_pages = <<>>
    /\ current_url = <<>>
    /\ pc = "loop"
    /\ queue0 = <<>>
    /\ fetched = <<>>
    /\ skipped = {}
    /\ admitted = <<>>
    /\ output = <<>>
    /\ nIn = <<>> /\ nAlt = <<>> /\ nOut = <<>> /\ nAltOut = <<>>
    /\ nPrev = <<>> /\ nStep = 0
    /\ gUrl = <<>> /\ gHost = <<>> /\ gDomain = <<>>
    /\ gSame = FALSE /\ gStep = 0

\* lines 78-83: pop a URL that is already in visited and drop it
SkipVisited ==
    /\ pc = "loop"
    /\ LoopCond(queue)
    /\ AlreadyVisited(clean_url(Head(queue)), visited)
    /\ current_url' = clean_url(Head(queue))
    /\ queue0' = queue
    /\ queue' = PopLeft(queue)
    /\ skipped' = skipped \cup {clean_url(Head(queue))}
    /\ UNCHANGED <<start_url, restrict_navbar, site, status, domain, visited,
                   scraped_pages, pc, fetched, admitted, output>>
    /\ UNCHANGED urlVars
    /\ UNCHANGED guardVars

\* lines 78-84: pop a new URL and mark it visited
MarkVisited ==
    /\ pc = "loop"
    /\ LoopCond(queue)
    /\ ~AlreadyVisited(clean_url(Head(queue)), visited)
    /\ current_url' = clean_url(Head(queue))
    /\ queue0' = queue
    /\ queue' = PopLeft(queue)
    /\ visited' = VisitedAdd(visited, clean_url(Head(queue)))
    /\ pc' = "fetch"
    /\ UNCHANGED <<start_url, restrict_navbar, site, status, domain,
                   scraped_pages, fetched, skipped, admitted, output>>
    /\ UNCHANGED urlVars
    /\ UNCHANGED guardVars

\* lines 88, 94-96: the request raises
FetchRaises ==
    /\ pc = "fetch"
    /\ Response(current_url).raised
    /\ fetched' = Append(fetched, current_url)
    /\ pc' = "loop"
    /\ UNCHANGED <<start_url, restrict_navbar, site, status, domain, queue,
                   visited, scraped_pages, current_url, queue0, skipped,
                   admitted, output>>
    /\ UNCHANGED urlVars
    /\ UNCHANGED guardVars

\* lines 88-93: a response with a status other than 200
FetchSkipsStatus ==
    /\ pc = "fetch"
    /\ ~Response(current_url).raised
    /\ ~Succeeded(Response(current_url).status_code)
    /\ fetched' = Append(fetched, current_url)
    /\ pc' = "loop"
    /\ UNCHANGED <<start_url, restrict_navbar, site, status, domain, queue,
                   visited, scraped_pages, current_url, queue0, skipped,
                   admitted, output>>
    /\ UNCHANGED urlVars
    /\ UNCHANGED guardVars

\* lines 88-123: record the page, extract its links, enqueue them
FetchOK ==
    /\ pc = "fetch"
    /\ ~Response(current_url).raised
    /\ Succeeded(Response(current_url).status_code)
    /\ LET page_html == site[current_url]
           new == Admitted(LinkTags(page_html, restrict_navbar),
                           current_url, domain, visited)
       IN  /\ scraped_pages' = Append(scraped_pages,
                                      [url |-> current_url, html |-> page_html])
           /\ queue' = PushAll(queue, new)
           /\ admitted' = admitted \o new
    /\ fetched' = Append(fetched, current_url)
    /\ pc' = "loop"
    /\ UNCHANGED <<start_url, restrict_navbar, site, status, domain, visited,
                   current_url, queue0, skipped, output>>
    /\ UNCHANGED urlVars
    /\ UNCHANGED guardVars

\* lines 128-130: the loop is over, write the file
WriteOutput ==
    /\ pc = "loop"
    /\ ~LoopCond(queue)
    /\ output' = Append(output, JsonDump(scraped_pages))
    /\ pc' = "done"
    /\ UNCHANGED <<start_url, restrict_navbar, site, status, domain, queue,
                   visited, scraped_pages, current_url, queue0, fetched,
                   skipped, admitted>>
    /\ UNCHANGED urlVars
    /\ UNCHANGED guardVars

Next ==
    \/ SkipVisited
    \/ MarkVisited
    \/ FetchRaises
    \/ FetchSkipsStatus
    \/ FetchOK
    \/ WriteOutput

Spec == Init /\ [][Next]_vars

\* the program runs on while it has a step to take
LiveSpec == Init /\ [][Next]_vars /\ WF_vars(Next)

----------------------------------------------------------------------------
(* Properties of the crawl *)

\* the range of a sequence
Range(q) == {q[k] : k \in 1..Len(q)}

\* the host of a URL string
HostOf(url) == urlparse(url, <<>>).netloc

\* a fetch that does not end in a 200 response
Failed(url) == Response(url).raised \/ Response(url).status_code # 200

\* C1: exactly-once processing: no normalized URL is handed to requests.get
\* twice, and no two records of scraped_pages have the same url.
ExactlyOnce ==
    /\ \A i, j \in 1..Len(fetched) :
          clean_url(fetched[i]) = clean_url(fetched[j]) => i = j
    /\ \A i, j \in 1..Len(scraped_pages) :
          scraped_pages[i].url = scraped_pages[j].url => i = j

\* a finished run that fetched several pages and discarded a duplicate
ExactlyOnceWitness ==
    /\ pc = "done"
    /\ Len(scraped_pages) >= 2
    /\ skipped \cap Range(fetched) # {}

\* C2: every URL in the queue, and every URL ever appended to it, has a
\* host equal to domain; a link to another host is never pushed.
QueueInDomain ==
    /\ \A k \in 1..Len(queue) : HostOf(queue[k]) = domain
    /\ \A k \in 1..Len(admitted) : HostOf(admitted[k]) = domain

\* a page with a link to another host was processed and links were pushed
QueueInDomainWitness ==
    /\ queue # <<>>
    /\ admitted # <<>>
    /\ \E k \in 1..Len(scraped_pages) :
          \E h \in Range(LinkTags(scraped_pages[k].html, restrict_navbar)) :
              /\ HostOf(clean_url(urljoin(scraped_pages[k].url, h))) # domain
              /\ HostOf(clean_url(urljoin(scraped_pages[k].url, h))) # <<>>

\* C3: a fetch that raises or answers with a status other than 200 leaves
\* the URL in visited, scraped_pages unchanged, pushes nothing (the queue is
\* the queue of the iteration minus its front) and returns to the loop.
FailureSkipsOnlyTheUrl ==
    [][(pc = "fetch" /\ Failed(current_url)) =>
          /\ current_url \in visited'
          /\ scraped_pages' = scraped_pages
          /\ queue' = Tail(queue0)
          /\ admitted' = admitted
          /\ fetched' = Append(fetched, current_url)
          /\ pc' = "loop"]_vars

\* a 404 and an exception both happened and a later URL was still recorded
FailureSkipsWitness ==
    \E i, j, k \in 1..Len(fetched) :
        /\ i < k /\ j < k
        /\ Response(fetched[i]).raised
        /\ ~Response(fetched[j]).raised
        /\ Response(fetched[j]).status_code = 404
        /\ \E n \in 1..Len(scraped_pages) : scraped_pages[n].url = fetched[k]

\* C4: with restrict_navbar, a page fetched with 200 that has no
\* div#navigationbar is recorded and nothing is pushed: the queue is the
\* queue of the iteration minus its front, whatever links the page holds.
NoRegionNoLinks ==
    [][(/\ pc = "fetch"
        /\ restrict_navbar
        /\ ~Failed(current_url)
        /\ ~site[current_url].nav) =>
          /\ scraped_pages' = Append(scraped_pages,
                 [url |-> current_url, html |-> site[current_url]])
          /\ queue' = Tail(queue0)
          /\ admitted' = admitted]_vars

\* such a page was recorded, its body linking to a same-host URL not visited
NoRegionWitness ==
    /\ restrict_navbar
    /\ pc = "loop"
    /\ scraped_pages # <<>>
    /\ LET r == scraped_pages[Len(scraped_pages)]
       IN  /\ ~r.html.nav
           /\ \E h \in Range(find_all_a(r.html)) :
                 /\ HostOf(clean_url(urljoin(r.url, h))) = domain
                 /\ clean_url(urljoin(r.url, h)) \notin visited

\* C5: without restrict_navbar every <a href> of a page fetched with 200,
\* inside or outside the navigation region, is a candidate: taken in
\* document order, resolved and normalized, it is appended to the queue
\* exactly when its host is domain and it is not in visited.
AllLinksAreCandidates ==
    [][(pc = "fetch" /\ ~restrict_navbar /\ ~Failed(current_url)) =>
          LET tags == site[current_url].anchors
              cand == [k \in 1..Len(tags) |->
                          clean_url(urljoin(current_url, tags[k].href))]
          IN  queue' = queue \o SelectSeq(cand,
                  LAMBDA u : HostOf(u) = domain /\ u \notin visited)]_vars

\* a link outside the region and one inside it were pushed, others were not
AllLinksWitness ==
    /\ ~restrict_navbar
    /\ \E k \in 1..Len(scraped_pages) :
          LET r == scraped_pages[k]
              abs(n) == clean_url(urljoin(r.url, r.html.anchors[n].href))
          IN  /\ \E n \in 1..Len(r.html.anchors) :
                    ~r.html.anchors[n].innav /\ abs(n) \in Range(admitted)
              /\ \E n \in 1..Len(r.html.anchors) :
                    r.html.anchors[n].innav /\ abs(n) \in Range(admitted)
              /\ \E n \in 1..Len(r.html.anchors) :
                    abs(n) \notin Range(admitted)

\* the url fields of a list of records
Urls(pages) == [k \in 1..Len(pages) |-> pages[k].url]

\* the URLs the links extracted from a recorded page lead to
Targets(r) ==
    {clean_url(urljoin(r.url, h)) :
        h \in Range(LinkTags(r.html, restrict_navbar))}

\* the URLs at most k links away from the seed, over recorded pages
RECURSIVE Within(_)
Within(k) ==
    IF k = 0 THEN {clean_url(start_url)}
    ELSE LET w == Within(k - 1)
         IN  w \cup UNION {Targets(r) :
                             r \in {x \in Range(scraped_pages) : x.url \in w}}

\* the link distance of a recorded URL from the seed
Distance(u) ==
    CHOOSE k \in 0..Len(scraped_pages) :
        u \in Within(k) /\ \A j \in 0..(k - 1) : u \notin Within(j)

\* the end-to-end scenario: Site1 from its root, every fetch answering 200
Scenario ==
    /\ site = Site1
    /\ start_url = Root
    /\ \A u \in DOMAIN status : status[u] = OK200

\* C6: records appear in scraped_pages in breadth-first order: the link
\* distance from the seed never decreases along the list; in the scenario
\* the final list is /, /a, /b, the root is fetched once and the link to
\* other.test is never enqueued.
BreadthFirstOrder ==
    /\ \A i, j \in 1..Len(scraped_pages) :
          i < j => Distance(scraped_pages[i].url)
                      <= Distance(scraped_pages[j].url)
    /\ Scenario =>
          /\ Offsite \notin Range(queue) \cup Range(admitted)
          /\ Cardinality({k \in 1..Len(fetched) : fetched[k] = Root}) <= 1
          /\ pc = "done" =>
                /\ Urls(scraped_pages) = <<Root, PageA, PageB>>
                /\ Cardinality({k \in 1..Len(fetched) : fetched[k] = Root}) = 1

\* the scenario has run to its end
BreadthFirstWitness ==
    /\ Scenario
    /\ pc = "done"
    /\ Len(scraped_pages) = 3
    /\ Distance(scraped_pages[3].url) = 1

\* C7: on a finite site where every fetch returns, the loop reaches an empty
\* queue and stops, whatever the link graph and the fetch outcomes.
CrawlTerminates == <>(pc = "done" /\ queue = <<>>)

\* a finished run over a site with a cycle, with a failed fetch on the way
CrawlTerminatesWitness ==
    /\ pc = "done"
    /\ \E k \in 1..Len(fetched) : Failed(fetched[k])
    /\ \E k \in 1..Len(scraped_pages) :
          \E n \in 1..k : scraped_pages[n].url \in Targets(scraped_pages[k])

\* C8: the output is written once and only after the queue is exhausted;
\* the written array is scraped_pages, in the order of the successful
\* fetches.
OutputOnceAtTheEnd ==
    /\ Len(output) <= 1
    /\ output # <<>> => queue = <<>>
    /\ pc = "done" <=> Len(output) = 1
    /\ output # <<>> =>
          /\ output[1] = scraped_pages
          /\ Urls(output[1]) = SelectSeq(fetched, LAMBDA u : ~Failed(u))

\* a written array of several records, failed fetches lying between them
OutputOnceWitness ==
    /\ Len(output) = 1
    /\ Len(output[1]) >= 2
    /\ \E i, j, k \in 1..Len(fetched) :
          i < j /\ j < k /\ ~Failed(fetched[i]) /\ Failed(fetched[j])
          /\ ~Failed(fetched[k])

----------------------------------------------------------------------------
(* clean_url on its own: strings of tokens, normalized as the crawl does *)

MaxUrlLen == 3

\* how an input begins: nothing, a scheme, a scheme and "//", "//" alone, and
\* a scheme that does not start with a letter
Heads ==
    {<<>>, <<"https", ":">>, <<"HTTPS", ":", "/", "/">>, <<"/", "/">>,
     <<"1", ":">>}

UrlAlphabet == {"a", ":", "/", ";"}

\* the strings of at most n tokens of A
Strings(A, n) == UNION {[1..k -> A] : k \in 0..n}

\* nothing, or a "?" or "#" and what follows it
Suffixes ==
    {<<>>, <<"?">>, <<"#">>, <<"?", "a">>, <<"#", "a">>, <<"?", "#">>,
     <<"#", "?">>, <<"?", ":">>, <<"#", ":">>, <<"?", "/">>, <<"#", "/">>}

AltSuffixes == {<<>>, <<"?", "a">>, <<"#", "a">>}

\* URLs of fetched pages that links are resolved against; <<>> when the
\* string is not a link but the start URL
Bases == {<<>>, Root, PageASlash}

UrlInit ==
    /\ \E h \in Heads, t \in Strings(UrlAlphabet, MaxUrlLen) :
          /\ nIn \in {h \o t \o x : x \in Suffixes}
          /\ nAlt \in {h \o t \o x : x \in AltSuffixes}
    /\ current_url \in Bases
    /\ nOut = <<>> /\ nAltOut = <<>> /\ nPrev = <<>> /\ nStep = 0
    /\ gUrl = <<>> /\ gHost = <<>> /\ gDomain = <<>>
    /\ gSame = FALSE /\ gStep = 0
    /\ start_url = <<>>
    /\ restrict_navbar = FALSE
    /\ site = Site1
    /\ status = [u \in DOMAIN Site1 |-> OK200]
    /\ domain = <<>>
    /\ queue = <<>>
    /\ visited = {}
    /\ scraped_pages = <<>>
    /\ pc = "idle"
    /\ queue0 = <<>>
    /\ fetched = <<>>
    /\ skipped = {}
    /\ admitted = <<>>
    /\ output = <<>>

\* line 80 on the start URL, which enters the queue as given
NormalizeSeed ==
    /\ nStep = 0
    /\ current_url = <<>>
    /\ nOut' = clean_url(nIn)
    /\ nAltOut' = clean_url(nAlt)
    /\ nPrev' = nIn
    /\ nStep' = 1
    /\ UNCHANGED <<nIn, nAlt>>
    /\ UNCHANGED crawlVars
    /\ UNCHANGED guardVars

\* lines 118-119 on the href of a link of the page at current_url
NormalizeLink ==
    /\ nStep = 0
    /\ current_url # <<>>
    /\ nOut' = clean_url(urljoin(current_url, nIn))
    /\ nAltOut' = clean_url(urljoin(current_url, nAlt))
    /\ nPrev' = nIn
    /\ nStep' = 1
    /\ UNCHANGED <<nIn, nAlt>>
    /\ UNCHANGED crawlVars
    /\ UNCHANGED guardVars

\* line 80 on a URL that was normalized before
NormalizeAgain ==
    /\ nStep = 1
    /\ nOut' = clean_url(nOut)
    /\ nAltOut' = clean_url(nAltOut)
    /\ nPrev' = nOut
    /\ nStep' = 2
    /\ UNCHANGED <<nIn, nAlt>>
    /\ UNCHANGED crawlVars
    /\ UNCHANGED guardVars

UrlNext ==
    \/ NormalizeSeed
    \/ NormalizeLink
    \/ NormalizeAgain

UrlSpec == UrlInit /\ [][UrlNext]_vars

\* the string has a scheme, or was resolved against the URL of a page
HasScheme == current_url # <<>> \/ urlparse(nIn, <<>>).scheme # <<>>

\* C9: two URLs that differ only in what follows the first "?" or "#"
\* normalize to the same value.
QueryAndFragmentIgnored == nStep >= 1 => nOut = nAltOut

\* two different strings with a query or a fragment were normalized
QueryAndFragmentWitness ==
    /\ nStep = 1
    /\ nIn # nAlt
    /\ urlparse(nIn, <<>>).query # <<>>
    /\ urlparse(nAlt, <<>>).fragment # <<>>
    /\ urlparse(nIn, <<>>).scheme = <<"https">>
    /\ urlparse(nIn, <<>>).netloc # <<>>
    /\ urlparse(nIn, <<>>).path # <<>>
    /\ nOut = nAltOut

\* C10 as stated: normalizing a normalized string returns it unchanged, for
\* every string.
IdempotentOnEveryString == nStep = 2 => nOut = nPrev

\* C10: normalizing a normalized URL returns it unchanged when the URL has a
\* scheme, as every URL has that was resolved against the URL of a fetched
\* page before it was enqueued.
IdempotentWithScheme == (nStep = 2 /\ HasScheme) => nOut = nPrev

\* a link whose first normalization changed it was normalized a second time
IdempotentWitness ==
    /\ nStep = 2
    /\ current_url # <<>>
    /\ nIn # <<>>
    /\ urljoin(current_url, nIn) # nOut
    /\ nOut = nPrev

----------------------------------------------------------------------------
(* is_same_domain on its own: URLs put together from their components *)

GuardSchemes == {<<>>, <<"https", ":">>, <<"HTTPS", ":">>, <<"a", ":">>}
GuardUserinfos == {<<>>, <<"x", "@">>}
GuardHosts == {<<"example.test">>, <<"www.example.test">>, <<"EXAMPLE.TEST">>}
GuardPorts == {<<>>, <<":", "1">>}
GuardRests ==
    {<<>>, <<"/", "a">>, <<"?", "q">>, <<"/", "a", ";", "x", "#", "f">>}

\* the values of domain: a host, with or without port, or nothing
GuardDomains == {<<>>} \cup {h \o p : h \in GuardHosts, p \in GuardPorts}

GuardInit ==
    /\ \E s \in GuardSchemes, u \in GuardUserinfos, h \in GuardHosts,
          p \in GuardPorts, r \in GuardRests, slashes \in BOOLEAN :
          /\ gUrl = IF slashes THEN s \o <<"/", "/">> \o u \o h \o p \o r
                    ELSE s \o h \o r
          /\ gHost = IF slashes THEN h \o p ELSE <<>>
    /\ gDomain \in GuardDomains
    /\ gSame = FALSE
    /\ gStep = 0
    /\ nIn = <<>> /\ nAlt = <<>> /\ nOut = <<>> /\ nAltOut = <<>>
    /\ nPrev = <<>> /\ nStep = 0
    /\ start_url = <<>>
    /\ restrict_navbar = FALSE
    /\ site = Site1
    /\ status = [u \in DOMAIN Site1 |-> OK200]
    /\ domain = <<>>
    /\ queue = <<>>
    /\ visited = {}
    /\ scraped_pages = <<>>
    /\ current_url = <<>>
    /\ pc = "idle"
    /\ queue0 = <<>>
    /\ fetched = <<>>
    /\ skipped = {}
    /\ admitted = <<>>
    /\ output = <<>>

\* line 122: the guard applied to a URL
CheckGuard ==
    /\ gStep = 0
    /\ gSame' = is_same_domain(gUrl, gDomain)
    /\ gStep' = 1
    /\ UNCHANGED <<gUrl, gHost, gDomain>>
    /\ UNCHANGED crawlVars
    /\ UNCHANGED urlVars

GuardNext == CheckGuard

GuardSpec == GuardInit /\ [][GuardNext]_vars

\* C11: is_same_domain(url, domain) is true exactly when the host of url,
\* with its port if it has one, is the same string as domain: no subdomain
\* matching, no case folding, no regard to scheme.
GuardIsHostEquality == gStep = 1 => (gSame <=> gHost = gDomain)

\* what remains of C11 in the code: the equivalence holds for every URL
\* that carries no userinfo, whatever its scheme, case and port
GuardIsHostEqualityWithoutUserinfo ==
    (gStep = 1 /\ \A k \in 1..Len(gUrl) : gUrl[k] # "@") =>
        (gSame <=> gHost = gDomain)

----------------------------------------------------------------------------
(* Further properties of the crawl *)

\* the strings that differ from u by one trailing "/"
SlashVariants(u) ==
    {u \o <<"/">>}
    \cup (IF u # <<>> /\ u[Len(u)] = "/" THEN {Upto(u, Len(u))} ELSE {})

NewlyAdmitted == {admitted'[k] : k \in (Len(admitted) + 1)..Len(admitted')}

\* C13 as stated: no URL is pushed while an equal URL waits in the queue, so
\* the queue never holds a URL twice.
QueueHasNoDuplicates ==
    \A i, j \in 1..Len(queue) : queue[i] = queue[j] => i = j

\* C13: admission is filtered against visited only: no URL is pushed while
\* it is in visited, and the queue holds no URL that was visited when it
\* was pushed; an equal URL waiting in the queue does not prevent a push.
AdmissionFiltersVisitedOnly ==
    [][/\ NewlyAdmitted \cap visited' = {}
       /\ pc = "fetch" /\ ~Failed(current_url) =>
             \A h \in Range(LinkTags(site[current_url], restrict_navbar)) :
                LET u == clean_url(urljoin(current_url, h))
                IN  (HostOf(u) = domain /\ u \notin visited /\
                        u \in Range(queue)) => u \in NewlyAdmitted]_vars

\* a URL was pushed while it was waiting in the queue already
AdmissionWitness ==
    /\ \E i, j \in 1..Len(queue) : i < j /\ queue[i] = queue[j]
    /\ Range(queue) \cap visited = {}

\* C14: a URL is marked visited when it is dequeued, not when it is pushed:
\* a push leaves visited unchanged, and the dequeue of a URL that is in
\* visited is discarded without a fetch and without a change of visited,
\* scraped_pages or the rest of the queue.
MarkedAtDequeue ==
    [][/\ pc = "fetch" => visited' = visited
       /\ (pc = "loop" /\ queue # <<>> /\
              clean_url(Head(queue)) \in visited) =>
             /\ pc' = "loop"
             /\ fetched' = fetched
             /\ visited' = visited
             /\ scraped_pages' = scraped_pages
             /\ queue' = Tail(queue)
             /\ admitted' = admitted]_vars

\* a URL was discarded at its second dequeue while another URL holds two
\* slots of the queue
MarkedAtDequeueWitness ==
    /\ skipped # {}
    /\ skipped \subseteq Range(fetched)
    /\ \E i, j \in 1..Len(queue) : i < j /\ queue[i] = queue[j]

\* C15: no retry and no re-enqueue: a URL handed to requests.get once is
\* never pushed again and never handed to requests.get again, whether that
\* fetch succeeded or not.
NoRetryNoReenqueue ==
    [][/\ NewlyAdmitted \cap Range(fetched') = {}
       /\ \/ fetched' = fetched
          \/ /\ fetched' = Append(fetched, current_url)
             /\ current_url \notin Range(fetched)]_vars

\* a page recorded later links to a URL whose fetch had failed, and a page
\* recorded later links to a URL whose fetch had succeeded
NoRetryWitness ==
    /\ pc = "done"
    /\ \E i, k \in 1..Len(fetched) :
          /\ i < k
          /\ Failed(fetched[i]) /\ ~Failed(fetched[k])
          /\ fetched[i] \in
                Targets([url |-> fetched[k], html |-> site[fetched[k]]])
    /\ \E j, k \in 1..Len(fetched) :
          /\ j < k
          /\ ~Failed(fetched[j]) /\ ~Failed(fetched[k])
          /\ fetched[j] \in
                Targets([url |-> fetched[k], html |-> site[fetched[k]]])

\* C16: every URL pushed is dequeued later on and is in visited when the
\* crawl stops, whatever fetches fail before its turn: a URL leaves the queue
\* only at the front, by a dequeue that leaves it in visited; a step that
\* pushes keeps every URL waiting; and the crawl comes to a stop with the
\* queue empty and the seed and every URL ever pushed in visited.
EveryAdmittedProcessed ==
    /\ [][/\ (pc = "loop" /\ queue # <<>>) =>
                /\ queue' = Tail(queue)
                /\ clean_url(Head(queue)) \in visited'
                /\ admitted' = admitted
          /\ pc = "fetch" =>
                queue' = queue \o SubSeq(admitted', Len(admitted) + 1,
                                         Len(admitted'))]_vars
    /\ [](Range(queue) \subseteq {start_url} \cup Range(admitted))
    /\ [](pc = "done" =>
             /\ queue = <<>>
             /\ clean_url(start_url) \in visited
             /\ Range(admitted) \subseteq visited)
    /\ <>[](pc = "done" /\ Range(admitted) \subseteq visited)

\* a finished run in which a fetch failed before the turn of a URL that
\* was waiting in the queue
EveryAdmittedWitness ==
    /\ pc = "done"
    /\ \E i, k \in 1..Len(fetched) :
          /\ i < k
          /\ Failed(fetched[i])
          /\ \E n \in 1..Len(admitted) : admitted[n] = fetched[k]
          /\ \E p \in 1..Len(scraped_pages) :
                /\ fetched[k] \in Targets(scraped_pages[p])
                /\ \E j \in 1..i : fetched[j] = scraped_pages[p].url

\* the URLs handed to requests.get so far, and the one about to be
Attempted ==
    Range(fetched) \cup (IF pc = "fetch" THEN {current_url} ELSE {})

\* C17: visited is the set of normalized URLs whose fetch was attempted; it
\* only grows; a URL enters it at its first dequeue, before its fetch; the
\* url of every record is in it.
VisitedIsAttempted ==
    /\ [](visited = Attempted)
    /\ [](Range(Urls(scraped_pages)) \subseteq visited)
    /\ [][/\ visited \subseteq visited'
          /\ visited' # visited =>
                /\ pc = "loop" /\ pc' = "fetch"
                /\ queue # <<>> /\ queue' = Tail(queue)
                /\ visited' = visited \cup {clean_url(Head(queue))}
                /\ clean_url(Head(queue)) \notin Range(fetched)
                /\ fetched' = fetched
          /\ fetched' # fetched =>
                fetched'[Len(fetched')] \in visited]_vars

\* a finished run with successful and failed fetches, all of them in visited
VisitedIsAttemptedWitness ==
    /\ pc = "done"
    /\ Cardinality(visited) >= 4
    /\ \E k \in 1..Len(fetched) : Failed(fetched[k])
    /\ Len(scraped_pages) >= 2
    /\ skipped # {}

\* the URLs one accepted link away from a set of URLs: the normalized
\* targets, on the crawl's domain, of the links the scope extracts from the
\* pages among them whose fetch returns 200
OneLinkAway(us) ==
    UNION {{t \in {clean_url(urljoin(u, h)) :
                      h \in Range(LinkTags(site[u], restrict_navbar))} :
               HostOf(t) = domain} :
           u \in {v \in us : Response(v) = OK200}}

\* the normalized seed and the URLs reachable from it through pages whose
\* fetch returns 200
RECURSIVE ReachableFrom(_)
ReachableFrom(us) ==
    IF OneLinkAway(us) \subseteq us THEN us
    ELSE ReachableFrom(us \cup OneLinkAway(us))

\* C18: at termination the recorded URLs are the normalized URLs whose fetch
\* returns 200 and that are the normalized seed or reachable from it through
\* successfully fetched pages by links the scope extracts and the guard
\* accepts.
CompleteAndSound ==
    pc = "done" =>
        Range(Urls(scraped_pages)) =
            {u \in ReachableFrom({clean_url(start_url)}) : Response(u) = OK200}

\* a finished run that recorded a page two links from the seed, skipped a
\* reachable URL whose fetch failed, and left out a page of the site that no
\* accepted link leads to
CompleteAndSoundWitness ==
    /\ pc = "done"
    /\ \E r \in Range(scraped_pages) : 
          /\ r.url \notin OneLinkAway({clean_url(start_url)})
          /\ r.url # clean_url(start_url)
    /\ \E u \in ReachableFrom({clean_url(start_url)}) : Response(u) # OK200
    /\ \E u \in DOMAIN site :
          /\ Response(u) = OK200
          /\ u \notin ReachableFrom({clean_url(start_url)})

\* C19 as stated: every URL handed to requests.get, and so the url of every
\* record, has a host equal to domain, the seed included.
FetchesInDomain ==
    /\ \A k \in 1..Len(fetched) : HostOf(fetched[k]) = domain
    /\ \A k \in 1..Len(scraped_pages) : HostOf(scraped_pages[k].url) = domain

\* C20: for the same seed, site and fetch outcomes, every URL recorded by the
\* crawl restricted to the navigation region is recorded by the crawl of the
\* whole document.
ScopeMonotone ==
    pc = "done" =>
        /\ scraped_pages = Scrape(restrict_navbar)
        /\ Range(Urls(Scrape(TRUE))) \subseteq Range(Urls(Scrape(FALSE)))

\* a finished run whose other scope records a different, non-empty set
ScopeMonotoneWitness ==
    /\ pc = "done"
    /\ Len(Scrape(TRUE)) >= 2
    /\ Range(Urls(Scrape(TRUE))) # Range(Urls(Scrape(FALSE)))
    /\ scraped_pages = Scrape(restrict_navbar)

====
